---- MODULE Spec2Model ----
(***************************************************************************)
(* Model of the hasher adapters of src/hasher_impl.rs: the identity        *)
(* hasher, the strobe (duplex) hasher, the blake2 (configurable output)    *)
(* hashers and the fixed output (sha1/sha2/sha3/keccak) hashers, each      *)
(* driven through Default / update / finalize / reset.                     *)
(*                                                                         *)
(* The primitive engines (strobe_rs, blake2b_simd, blake2s_simd, digest)   *)
(* are external crates.  They are modelled symbolically: a primitive state *)
(* is the transcript of what it absorbed, and an output of n bytes is the   *)
(* term "n bytes extracted from that transcript".  Two outputs are equal   *)
(* exactly when their lengths and transcripts are (no collisions).         *)
(*                                                                         *)
(* A Rust panic is modelled as a call that does not return normally        *)
(* (ok = FALSE) and leaves the object as the unwinding finds it.           *)
(***************************************************************************)
EXTENDS Integers, Sequences, FiniteSets

VARIABLES h, chunks, tags, out, last, prev

vars == <<h, chunks, tags, out, last, prev>>

\* ------------------------------------------------------------------ bounds
\* Longest input slice handed to one update call.
MaxChunk == 2
\* Most update calls between two resets.
MaxCalls == 2

\* Byte values fed to the hashers.  No adapter branches on the value of a
\* byte, so two values (zero, the value of an unwritten byte, and a nonzero
\* one) cover the cases.
ByteVals == {0, 1}

Inputs == UNION {[1..n -> ByteVals] : n \in 0..MaxChunk}

\* Output sizes S the generic hashers are instantiated with.
IdentitySizes == {0, 2, 3}

StrobeSizes == {32, 64}

BlakeSizes(module) ==
    IF module = "blake2b_simd" THEN {0, 32, 64, 65} ELSE {0, 16, 32, 33}

\* ----------------------------------------------------------------- helpers
RECURSIVE Concat(_)
Concat(ss) == IF ss = <<>> THEN <<>> ELSE Head(ss) \o Concat(Tail(ss))

Zeros(n) == [k \in 1..n |-> 0]

\* derive_digest!: a digest wraps a GenericArray<u8, S>: len bytes, whose
\* content val is either the bytes themselves or the transcript they were
\* extracted from.
Digest(len, val) == [len |-> len, val |-> val]

NoDigest == Digest(0, <<>>)

\* Result of a call: the object afterwards, whether the call returned
\* normally, and the digest it returned (NoDigest when it returns none).
Ret(hasher, ok, digest) == [hasher |-> hasher, ok |-> ok, digest |-> digest]

NoHasher == [kind |-> "none", size |-> 0]

\* ---------------------------------------------------------------- identity
\* #[derive(Default)]: bytes all zero, i = 0.
IdentityDefault(n) ==
    Ret([kind |-> "identity", size |-> n, bytes |-> Zeros(n), i |-> 0], TRUE, NoDigest)

\* update that silently truncates the input to the free space.
IdentityUpdateTruncating(hs, input) ==
    LET start == hs.i
        room  == Len(hs.bytes) - start
        take  == IF Len(input) <= room THEN Len(input) ELSE room
    IN  Ret([hs EXCEPT !.bytes = [k \in 1..Len(hs.bytes) |->
                                    IF start < k /\ k <= start + take
                                    THEN input[k - start] ELSE hs.bytes[k]],
                       !.i = start + take],
            TRUE, NoDigest)

\* update that forgets to advance the cursor.
IdentityUpdateNoAdvance(hs, input) ==
    LET end == Len(input)
    IN  IF end > Len(hs.bytes)
        THEN Ret(hs, FALSE, NoDigest)
        ELSE Ret([hs EXCEPT !.bytes = [k \in 1..Len(hs.bytes) |->
                                         IF k <= end THEN input[k] ELSE hs.bytes[k]]],
                 TRUE, NoDigest)

\* self.bytes[start..end] panics (slice index out of range) when end exceeds
\* the array length, before copy_from_slice runs and before self.i is set.
IdentityUpdate(hs, input) ==
    LET start == hs.i
        end   == start + Len(input)
    IN  IF end > Len(hs.bytes)
        THEN Ret(hs, FALSE, NoDigest)
        ELSE Ret([hs EXCEPT !.bytes = [k \in 1..Len(hs.bytes) |->
                                         IF start < k /\ k <= end
                                         THEN input[k - start] ELSE hs.bytes[k]],
                            !.i = end],
                 TRUE, NoDigest)

\* finalize that returns only the written prefix.
IdentityFinalizePrefix(hs) ==
    Ret(hs, TRUE, Digest(hs.i, SubSeq(hs.bytes, 1, hs.i)))

\* Self::Digest::from(self.bytes.clone())
IdentityFinalize(hs) == Ret(hs, TRUE, Digest(Len(hs.bytes), hs.bytes))

\* reset that rewinds the cursor but keeps the old bytes.
IdentityResetKeepsBytes(hs) == Ret([hs EXCEPT !.i = 0], TRUE, NoDigest)

\* reset that clears the bytes but keeps the cursor.
IdentityResetKeepsCursor(hs) ==
    Ret([hs EXCEPT !.bytes = Zeros(Len(hs.bytes))], TRUE, NoDigest)

IdentityReset(hs) ==
    Ret([hs EXCEPT !.bytes = Zeros(Len(hs.bytes)), !.i = 0], TRUE, NoDigest)

\* ------------------------------------------------- strobe_rs primitive
\* Rate in bytes of Keccak-f[1600] at SecParam::B128: 1600/8 - 128/4 - 2.
StrobeRate == 166

Event(t, v) == [t |-> t, v |-> v]

FlagBits(flags) == IF flags = "AD" THEN 2 ELSE 7

\* Strobe::run_f: pads with pos_begin, permutes, rewinds.
StrobeRunF(s) ==
    [s EXCEPT !.st = Append(s.st, Event("F", s.pos_begin)), !.pos = 0, !.pos_begin = 0]

\* Strobe::absorb, one byte at a time, permuting when the rate is reached.
RECURSIVE StrobeAbsorb(_, _)
StrobeAbsorb(s, data) ==
    IF data = <<>> THEN s
    ELSE LET s1 == [s EXCEPT !.st = Append(s.st, Event("absorb", Head(data))),
                             !.pos = s.pos + 1]
             s2 == IF s1.pos = StrobeRate THEN StrobeRunF(s1) ELSE s1
         IN  StrobeAbsorb(s2, Tail(data))

\* Strobe::squeeze of n bytes: the bytes up to the end of the block are taken
\* from the state, which is permuted whenever the rate is reached.
RECURSIVE StrobeSqueezeState(_, _)
StrobeSqueezeState(s, n) ==
    LET room == StrobeRate - s.pos
    IN  IF n < room
        THEN [s EXCEPT !.st = Append(s.st, Event("squeeze", n)), !.pos = s.pos + n]
        ELSE StrobeSqueezeState(
                 StrobeRunF([s EXCEPT !.st = Append(s.st, Event("squeeze", room)),
                                      !.pos = StrobeRate]),
                 n - room)

\* The n output bytes are extracted from the transcript the squeeze starts from.
StrobeSqueeze(s, n) ==
    [strobe |-> StrobeSqueezeState(s, n), out |-> Digest(n, s.st)]

\* Strobe::begin_op: frames a new operation; PRF (flag C) forces a permutation.
StrobeBeginOp(s, flags) ==
    LET old_begin == s.pos_begin
        s1 == [s EXCEPT !.pos_begin = s.pos + 1, !.cur_flags = flags]
        s2 == StrobeAbsorb(s1, <<old_begin, FlagBits(flags)>>)
    IN  IF flags = "PRF" /\ s2.pos # 0 THEN StrobeRunF(s2) ELSE s2

\* Strobe::new(b"StrobeHash", SecParam::B128): initial permutation, then the
\* protocol label absorbed as a meta-AD operation (2 framing + 10 label bytes).
StrobeNew ==
    [st |-> <<Event("init", 128)>>, pos |-> 12, pos_begin |-> 1, cur_flags |-> "meta_AD"]

\* Strobe::ad(data, more): more = false begins a new AD operation, more = true
\* continues the current one, which must be an AD operation.
StrobeAd(s, data, more) ==
    IF more
    THEN IF s.cur_flags = "AD"
         THEN [strobe |-> StrobeAbsorb(s, data), ok |-> TRUE]
         ELSE [strobe |-> s, ok |-> FALSE]
    ELSE [strobe |-> StrobeAbsorb(StrobeBeginOp(s, "AD"), data), ok |-> TRUE]

\* Strobe::prf(out, more = false): begins a PRF operation and squeezes Len(out) bytes.
StrobePrf(s, n) == StrobeSqueeze(StrobeBeginOp(s, "PRF"), n)

\* ------------------------------------------------------------ strobe hasher
StrobeDefault(n) ==
    Ret([kind |-> "strobe", size |-> n, strobe |-> StrobeNew, initialized |-> FALSE],
        TRUE, NoDigest)

\* update that never sets the flag.
StrobeUpdateNoFlag(hs, input) ==
    LET r == StrobeAd(hs.strobe, input, hs.initialized)
    IN  [hasher |-> [hs EXCEPT !.strobe = r.strobe], ok |-> r.ok, digest |-> NoDigest,
         more |-> hs.initialized]

\* self.strobe.ad(input, self.initialized); self.initialized = true;
StrobeUpdate(hs, input) ==
    LET r == StrobeAd(hs.strobe, input, hs.initialized)
    IN  IF r.ok
        THEN [hasher |-> [hs EXCEPT !.strobe = r.strobe, !.initialized = TRUE],
              ok |-> TRUE, digest |-> NoDigest, more |-> hs.initialized]
        ELSE [hasher |-> hs, ok |-> FALSE, digest |-> NoDigest, more |-> hs.initialized]

\* finalize that extracts from the hasher's own sponge instead of a clone.
StrobeFinalizeInPlace(hs) ==
    LET r == StrobePrf(hs.strobe, hs.size)
    IN  Ret([hs EXCEPT !.strobe = r.strobe], TRUE, r.out)

\* hash = GenericArray::default(); self.strobe.clone().prf(&mut hash, false);
StrobeFinalize(hs) ==
    LET clone == hs.strobe
        r     == StrobePrf(clone, Len(Zeros(hs.size)))
    IN  Ret(hs, TRUE, r.out)

\* reset that replaces the sponge but leaves the flag.
StrobeResetKeepsFlag(hs) ==
    Ret([hs EXCEPT !.strobe = StrobeDefault(hs.size).hasher.strobe], TRUE, NoDigest)

StrobeReset(hs) ==
    Ret([hs EXCEPT !.strobe = StrobeDefault(hs.size).hasher.strobe,
                   !.initialized = FALSE],
        TRUE, NoDigest)

\* ------------------------------------- blake2b_simd / blake2s_simd primitive
\* OUTBYTES of the two modules.
Blake2bOutBytes == 64

Blake2sOutBytes == 32

OutBytes(module) == IF module = "blake2b_simd" THEN Blake2bOutBytes ELSE Blake2sOutBytes

\* Params::new(): the default hash length is OUTBYTES.
ParamsNew(module) == [module |-> module, hash_length |-> OutBytes(module)]

\* Params::hash_length(length): asserts 1 <= length <= OUTBYTES.
ParamsHashLength(params, length) ==
    IF 1 <= length /\ length <= OutBytes(params.module)
    THEN [params |-> [params EXCEPT !.hash_length = length], ok |-> TRUE]
    ELSE [params |-> params, ok |-> FALSE]

\* Params::to_state(): nothing absorbed yet.
ParamsToState(params) ==
    [module |-> params.module, hash_length |-> params.hash_length, input |-> <<>>]

\* State::update(input)
BlakeStateUpdate(st, input) == [st EXCEPT !.input = st.input \o input]

\* State::finalize(&self).as_bytes(): hash_length bytes of the hash of the input.
BlakeStateFinalize(st) ==
    Digest(st.hash_length,
           <<Event(st.module, st.hash_length)>>
           \o [k \in 1..Len(st.input) |-> Event("absorb", st.input[k])])

\* ------------------------------------------------------------- blake hasher
\* Default that clamps the length into the primitive's range.
BlakeDefaultClamping(module, n) ==
    LET len == IF n < 1 THEN 1 ELSE IF n > OutBytes(module) THEN OutBytes(module) ELSE n
        p   == ParamsHashLength(ParamsNew(module), len)
    IN  Ret([kind |-> "blake", size |-> n, state |-> ParamsToState(p.params)], TRUE, NoDigest)

\* params.hash_length(S::to_usize()) panics on an unsupported length: no
\* instance is produced.
BlakeDefault(module, n) ==
    LET p == ParamsHashLength(ParamsNew(module), n)
    IN  IF p.ok
        THEN Ret([kind |-> "blake", size |-> n, state |-> ParamsToState(p.params)],
                 TRUE, NoDigest)
        ELSE Ret(NoHasher, FALSE, NoDigest)

BlakeUpdate(hs, input) ==
    Ret([hs EXCEPT !.state = BlakeStateUpdate(hs.state, input)], TRUE, NoDigest)

\* GenericArray::clone_from_slice panics when the slice is not S bytes long.
BlakeFinalize(hs) ==
    LET bytes == BlakeStateFinalize(hs.state)
    IN  IF bytes.len = hs.size THEN Ret(hs, TRUE, bytes) ELSE Ret(hs, FALSE, NoDigest)

\* let Self { state, .. } = Self::default(); self.state = state;
BlakeReset(hs) ==
    LET d == BlakeDefault(hs.state.module, hs.size)
    IN  IF d.ok THEN Ret([hs EXCEPT !.state = d.hasher.state], TRUE, NoDigest)
        ELSE Ret(hs, FALSE, NoDigest)

\* ------------------------------------------------- digest crate primitives
\* The derive_hasher_sha! instantiations: hasher name, primitive, Size.
ShaVariants ==
    { [name |-> "Sha1",      module |-> "sha1::Sha1",       size |-> 20],
      [name |-> "Sha2_256",  module |-> "sha_2::Sha256",    size |-> 32],
      [name |-> "Sha2_512",  module |-> "sha_2::Sha512",    size |-> 64],
      [name |-> "Sha3_224",  module |-> "sha_3::Sha3_224",  size |-> 28],
      [name |-> "Sha3_256",  module |-> "sha_3::Sha3_256",  size |-> 32],
      [name |-> "Sha3_384",  module |-> "sha_3::Sha3_384",  size |-> 48],
      [name |-> "Sha3_512",  module |-> "sha_3::Sha3_512",  size |-> 64],
      [name |-> "Keccak224", module |-> "sha_3::Keccak224", size |-> 28],
      [name |-> "Keccak256", module |-> "sha_3::Keccak256", size |-> 32],
      [name |-> "Keccak384", module |-> "sha_3::Keccak384", size |-> 48],
      [name |-> "Keccak512", module |-> "sha_3::Keccak512", size |-> 64] }

\* digest::Digest::OutputSize of each primitive.
OutputSize(module) ==
    CASE module = "sha1::Sha1" -> 20
      [] module \in {"sha_3::Sha3_224", "sha_3::Keccak224"} -> 28
      [] module \in {"sha_2::Sha256", "sha_3::Sha3_256", "sha_3::Keccak256"} -> 32
      [] module \in {"sha_3::Sha3_384", "sha_3::Keccak384"} -> 48
      [] OTHER -> 64

\* digest::Digest::new / Default
DigestNew(module) == [module |-> module, input |-> <<>>]

\* digest::Digest::update
DigestUpdate(st, input) == [st EXCEPT !.input = st.input \o input]

\* digest::Digest::finalize(self): consumes the state it is called on.
DigestFinalize(st) ==
    Digest(OutputSize(st.module),
           <<Event(st.module, OutputSize(st.module))>>
           \o [k \in 1..Len(st.input) |-> Event("absorb", st.input[k])])

\* digest::Digest::reset
DigestReset(st) == DigestNew(st.module)

\* --------------------------------------------------------------- sha hasher
\* #[derive(Default)]
ShaDefault(v) ==
    Ret([kind |-> "sha", size |-> v.size, name |-> v.name, state |-> DigestNew(v.module)],
        TRUE, NoDigest)

ShaUpdate(hs, input) ==
    Ret([hs EXCEPT !.state = DigestUpdate(hs.state, input)], TRUE, NoDigest)

\* Self::Digest::from(self.state.clone().finalize())
ShaFinalize(hs) ==
    LET clone == hs.state
    IN  Ret(hs, TRUE, DigestFinalize(clone))

ShaReset(hs) == Ret([hs EXCEPT !.state = DigestReset(hs.state)], TRUE, NoDigest)

\* ------------------------------------------------------------ the program
BlakeModules == {"blake2b_simd", "blake2s_simd"}

\* One call: what was called, on which adapter, with which argument, and
\* whether it returned normally.
Call(op, target, arg, ok) == [op |-> op, target |-> target, arg |-> arg, ok |-> ok]

TargetOf(hs) ==
    CASE hs.kind = "blake" -> hs.state.module
      [] hs.kind = "sha"   -> hs.name
      [] OTHER             -> hs.kind

\* The call before the last one: what it was and whether it returned normally.
Before(c) == [op |-> c.op, ok |-> c.ok]

Init ==
    /\ h = NoHasher
    /\ chunks = <<>>
    /\ tags = <<>>
    /\ out = NoDigest
    /\ last = Call("none", "none", <<>>, TRUE)
    /\ prev = Before(Call("none", "none", <<>>, TRUE))

\* Self::default()
Constructed(r, target, n) ==
    /\ h.kind = "none"
    /\ last.op = "none"
    /\ h' = r.hasher
    /\ out' = r.digest
    /\ last' = Call("default", target, <<n>>, r.ok)
    /\ prev' = Before(last)
    /\ UNCHANGED <<chunks, tags>>

NewIdentity == \E n \in IdentitySizes : Constructed(IdentityDefault(n), "identity", n)

NewStrobe == \E n \in StrobeSizes : Constructed(StrobeDefault(n), "strobe", n)

NewBlake ==
    \E module \in BlakeModules : \E n \in BlakeSizes(module) :
        Constructed(BlakeDefault(module, n), module, n)

NewSha == \E v \in ShaVariants : Constructed(ShaDefault(v), v.name, v.size)

\* hasher.update(input)
Updated(r, input) ==
    /\ Len(chunks) < MaxCalls
    /\ h' = r.hasher
    /\ out' = r.digest
    /\ chunks' = IF r.ok THEN Append(chunks, input) ELSE chunks
    /\ last' = Call("update", TargetOf(h), input, r.ok)
    /\ prev' = Before(last)

UpdateIdentity ==
    /\ h.kind = "identity"
    /\ \E input \in Inputs : Updated(IdentityUpdate(h, input), input) /\ UNCHANGED tags

UpdateStrobe ==
    /\ h.kind = "strobe"
    /\ \E input \in Inputs :
          LET r == StrobeUpdate(h, input)
          IN  Updated(r, input) /\ tags' = Append(tags, r.more)

UpdateBlake ==
    /\ h.kind = "blake"
    /\ \E input \in Inputs : Updated(BlakeUpdate(h, input), input) /\ UNCHANGED tags

UpdateSha ==
    /\ h.kind = "sha"
    /\ \E input \in Inputs : Updated(ShaUpdate(h, input), input) /\ UNCHANGED tags

\* hasher.finalize()
Finalized(r) ==
    /\ h' = r.hasher
    /\ out' = r.digest
    /\ last' = Call("finalize", TargetOf(h), <<>>, r.ok)
    /\ prev' = Before(last)
    /\ UNCHANGED <<chunks, tags>>

FinalizeIdentity == h.kind = "identity" /\ Finalized(IdentityFinalize(h))

FinalizeStrobe == h.kind = "strobe" /\ Finalized(StrobeFinalize(h))

FinalizeBlake == h.kind = "blake" /\ Finalized(BlakeFinalize(h))

FinalizeSha == h.kind = "sha" /\ Finalized(ShaFinalize(h))

\* hasher.reset()
WasReset(r) ==
    /\ h' = r.hasher
    /\ out' = r.digest
    /\ chunks' = IF r.ok THEN <<>> ELSE chunks
    /\ tags' = IF r.ok THEN <<>> ELSE tags
    /\ last' = Call("reset", TargetOf(h), <<>>, r.ok)
    /\ prev' = Before(last)

ResetIdentity == h.kind = "identity" /\ WasReset(IdentityReset(h))

ResetStrobe == h.kind = "strobe" /\ WasReset(StrobeReset(h))

ResetBlake == h.kind = "blake" /\ WasReset(BlakeReset(h))

ResetSha == h.kind = "sha" /\ WasReset(ShaReset(h))

Next ==
    \/ NewIdentity \/ NewStrobe \/ NewBlake \/ NewSha
    \/ UpdateIdentity \/ UpdateStrobe \/ UpdateBlake \/ UpdateSha
    \/ FinalizeIdentity \/ FinalizeStrobe \/ FinalizeBlake \/ FinalizeSha
    \/ ResetIdentity \/ ResetStrobe \/ ResetBlake \/ ResetSha

Spec == Init /\ [][Next]_vars

\* ------------------------------------------------ the Hasher trait, by kind
\* A freshly constructed instance with the configuration of hs.
FreshOf(hs) ==
    CASE hs.kind = "identity" -> IdentityDefault(hs.size).hasher
      [] hs.kind = "strobe"   -> StrobeDefault(hs.size).hasher
      [] hs.kind = "blake"    -> BlakeDefault(hs.state.module, hs.size).hasher
      [] hs.kind = "sha"      ->
            ShaDefault(CHOOSE v \in ShaVariants : v.name = hs.name).hasher

HUpdate(hs, input) ==
    CASE hs.kind = "identity" -> IdentityUpdate(hs, input)
      [] hs.kind = "strobe"   -> StrobeUpdate(hs, input)
      [] hs.kind = "blake"    -> BlakeUpdate(hs, input)
      [] hs.kind = "sha"      -> ShaUpdate(hs, input)

HFinalize(hs) ==
    CASE hs.kind = "identity" -> IdentityFinalize(hs)
      [] hs.kind = "strobe"   -> StrobeFinalize(hs)
      [] hs.kind = "blake"    -> BlakeFinalize(hs)
      [] hs.kind = "sha"      -> ShaFinalize(hs)

Reset == ResetIdentity \/ ResetStrobe \/ ResetBlake \/ ResetSha

\* Everything absorbed since construction or the last reset, in order.
Absorbed == Concat(chunks)

\* ------------------------------------------------------------------- claims

\* C1 (identity round trip): when the chunks absorbed by an IdentityHasher of
\* capacity N since construction or the last reset sum to exactly N bytes,
\* finalize returns exactly those N bytes, in the order they were written.
C1_IdentityRoundTrip ==
    (h.kind = "identity" /\ last.op = "finalize" /\ Len(Absorbed) = h.size)
        => (last.ok /\ out = Digest(h.size, Absorbed))

C1_Witness ==
    /\ h.kind = "identity" /\ last.op = "finalize" /\ h.size = 3
    /\ Len(chunks) = 2 /\ Len(chunks[1]) = 1
    /\ out.val = <<1, 0, 1>>

\* C2 (identity capacity violation): an update of an IdentityHasher whose
\* input does not fit (i + len(input) > N) does not return normally and
\* leaves the buffer and the cursor as they were.
C2_CapacityViolation ==
    [][(h.kind = "identity" /\ last'.op = "update" /\ h.i + Len(last'.arg) > h.size)
          => (~last'.ok /\ h' = h /\ chunks' = chunks)]_vars

C2_Witness ==
    /\ h.kind = "identity" /\ last.op = "update" /\ ~last.ok
    /\ h.i = 1 /\ h.size = 2 /\ Len(last.arg) = 2 /\ h.bytes = <<1, 0>>

\* C3 (reset equivalence): right after reset the whole hasher state equals
\* the state of a newly constructed instance of the same configuration.
C3_ResetEquivalence ==
    (last.op = "reset") => (last.ok /\ h = FreshOf(h) /\ chunks = <<>>)

C3_Witness ==
    /\ last.op = "reset" /\ prev.op = "update" /\ prev.ok
    /\ h.kind = "strobe" /\ ~h.initialized

\* C4 (finalize purity): finalize leaves the hasher state unchanged, and a
\* finalize that directly follows a finalize returns the same digest.
C4_FinalizePurity ==
    [][(last'.op = "finalize")
          => (last'.ok /\ h' = h /\ (last.op = "finalize" => out' = out))]_vars

C4_Witness ==
    /\ last.op = "update" /\ prev.op = "finalize" /\ h.kind = "strobe"
    /\ Len(chunks) = 2

\* C5 (chunking determinism): the digest of the state reached by absorbing a
\* byte sequence in any number of update calls equals the digest of a fresh
\* instance that absorbed the same sequence in a single update call.
C5_ChunkingDeterminism ==
    (h.kind # "none")
        => (HFinalize(h).digest = HFinalize(HUpdate(FreshOf(h), Absorbed).hasher).digest)

\* C6 (duplex framing flag): the strobe hasher's initialized flag is true
\* exactly when an update happened since construction or the last reset; the
\* first such update was absorbed with more = false, all later with more = true.
C6_FramingFlag ==
    (h.kind = "strobe")
        => /\ h.initialized = (tags # <<>>)
           /\ Len(tags) = Len(chunks)
           /\ \A k \in DOMAIN tags : tags[k] = (k > 1)

C6_Witness ==
    /\ h.kind = "strobe" /\ last.op = "finalize" /\ prev.op = "update"
    /\ Len(tags) = 2 /\ chunks[1] = <<>> /\ h.initialized

\* C7 (fixed length): finalize always returns a digest of exactly N bytes,
\* and N never changes once the instance is constructed.
C7_FixedLength ==
    [][(h.kind # "none")
          => /\ h'.size = h.size
             /\ (last'.op = "finalize") => (last'.ok /\ out'.len = h.size)]_vars

C7_Witness ==
    /\ last.op = "finalize" /\ h.kind = "blake" /\ h.size = 16
    /\ chunks = <<<<>>>> /\ out.len = 16

\* C8 (configurable length bounds): constructing a blake2 hasher succeeds
\* exactly when 1 <= N <= OUTBYTES of the primitive; on success the primitive
\* is configured with exactly N, on failure no instance is produced.
C8_LengthBounds ==
    (last.op = "default" /\ last.target \in BlakeModules)
        => LET n == last.arg[1]
           IN  /\ last.ok <=> (1 <= n /\ n <= OutBytes(last.target))
               /\ last.ok => (h.kind = "blake" /\ h.size = n /\ h.state.hash_length = n)
               /\ ~last.ok => h.kind = "none"

C8_Witness ==
    /\ last.op = "default" /\ last.target = "blake2b_simd"
    /\ last.arg = <<65>> /\ ~last.ok /\ h.kind = "none"

\* C9 (identity buffer invariant): 0 <= i <= N, bytes[0..i) is what was
\* absorbed since construction or the last reset, bytes[i..N) is zero, and
\* finalize returns the absorbed bytes followed by N - i zero bytes.
C9_BufferInvariant ==
    (h.kind = "identity")
        => /\ 0 <= h.i /\ h.i <= h.size /\ Len(h.bytes) = h.size
           /\ SubSeq(h.bytes, 1, h.i) = Absorbed
           /\ \A k \in (h.i + 1)..h.size : h.bytes[k] = 0
           /\ (last.op = "finalize")
                 => out = Digest(h.size, Absorbed \o Zeros(h.size - h.i))

C9_Witness ==
    /\ h.kind = "identity" /\ last.op = "finalize" /\ h.size = 3
    /\ h.i = 1 /\ out.val = <<1, 0, 0>>

\* C10 (no terminal state): in every state of every adapter reset can be
\* called and leads to the fresh state, in which update and finalize work.
C10_NoTerminalState ==
    (h.kind # "none")
        => /\ ENABLED (Reset /\ last'.ok /\ h' = FreshOf(h) /\ chunks' = <<>>)
           /\ (last.op = "reset")
                 => /\ HFinalize(h).ok
                    /\ \A input \in Inputs :
                          (h.kind = "identity" => Len(input) <= h.size)
                             => HUpdate(h, input).ok

C10_Witness ==
    /\ last.op = "reset" /\ prev.op = "update" /\ ~prev.ok
    /\ h.kind = "identity" /\ h.i = 0

====
